---- MODULE Spec2Model ----
(***************************************************************************)
(* A model of the unist terminal UI: the App controller (src/ui/app.rs),   *)
(* its Data view, the two panes (src/ui/panes.rs), the closure popups      *)
(* (src/ui/popups.rs), the task model (src/uni/task.rs) and the TOML       *)
(* storage (src/storages.rs).                                              *)
(*                                                                         *)
(* Conventions.                                                            *)
(*   Option<T>     None is <<>>, Some(x) is <<x>>.                         *)
(*   DateTime      a record [utc, off]: the instant and the fixed offset.  *)
(*                 Instants count units of 12 hours.                       *)
(*   usize         narrowed to 16 bits (USIZE_MAX); every length of the    *)
(*                 model is far below it.                                  *)
(*   panic         "" while the process runs, else the reason of the       *)
(*                 panic; a panicked process takes no further step.        *)
(*   key_event, wrote, prev                                                *)
(*                 describe the iteration of the loop in progress: the     *)
(*                 event it read, whether it wrote the storage file, and   *)
(*                 the state the handler started from. A draw starts the   *)
(*                 next iteration and resets them.                         *)
(*   screen        the App is given a terminal on the alternate screen     *)
(*                 and leaves it only while the editor runs.               *)
(*                                                                         *)
(* Spec is the App in its event loop. The functions that have a contract   *)
(* of their own (Data::sort, Task::get_status, the storage round trip, the *)
(* menus of the line-oriented Todo) are also run on their own, in unit     *)
(* specifications that draw the inputs in Init and apply the functions in  *)
(* their actions: arg, ret and calls belong to these.                      *)
(***************************************************************************)
EXTENDS Integers, Sequences, FiniteSets, TLC

VARIABLES
    tasks,            \* Data.tasks
    index,            \* Data.index : Option<usize>
    filter_zen,       \* Data.filter_zen
    current_pane,     \* App.current_pane : "Left" | "Right"
    table_selected,   \* left pane, TasksPane.table_state.selected()
    show_numbers,     \* left pane, TasksPane.show_numbers
    current_entry,    \* right pane, DescriptionPane.current_entry
    current_popup,    \* App.current_popup : Option<ClosurePopup>
    file,             \* the content of the storage file
    exit,             \* App.exit, the terminate flag
    pc,               \* position in App::run: "draw" | "event" | "done"
    panic,            \* "" or the reason the process panicked
    overflow_checks,  \* "unknown" until an overflow decides it, then "off"
    key_event,        \* the event handled in this iteration of the loop
    wrote,            \* this iteration called fs::write on the storage file
    prev,             \* the state in which this iteration's event arrived
    screen,           \* the terminal screen in use: "alternate" | "main"
    arg,              \* unit specifications: the input the functions are given
    ret,              \* unit specifications: what the last call returned
    calls             \* unit specifications: the functions called so far

vars == <<tasks, index, filter_zen, current_pane, table_selected, show_numbers,
          current_entry, current_popup, file, exit, pc, panic, overflow_checks,
          key_event, wrote, prev, screen, arg, ret, calls>>

\* the variables of the unit specifications; the App leaves them alone
unit_vars == <<arg, ret, calls>>

----------------------------------------------------------------------------
(* Bounds of the model.                                                    *)

\* the longest collection the storage file holds at startup
MaxInit == 2
\* 'p' is not pressed once the collection holds this many tasks
MaxTasks == 2
\* clock readings and deadlines are instants 0..MaxTime
MaxTime == 0
\* SpecData: the longest collection that is sorted and filtered
MaxData == 3
\* SpecData: the number of calls made on one Data
MaxCalls == 2
\* SpecTask: deadlines and durations reach this far before and after now
MaxDeadline == 5
\* SpecStorage: the longest collection that is written and read back
MaxStored == 2
\* SpecDescription: the number of keys the DescriptionPane is given
MaxKeys == 4
\* SpecDefault: the number of times a flag of the task is toggled
MaxToggles == 2

----------------------------------------------------------------------------
(* Option, usize.                                                          *)

None == <<>>
Some(x) == <<x>>
is_some(o) == o # None
is_none(o) == o = None
unwrap(o) == o[1]

USIZE_MAX == 2^16 - 1

wrapping_sub(a, b) == (a - b) % (USIZE_MAX + 1)

Min(a, b) == IF a <= b THEN a ELSE b

----------------------------------------------------------------------------
(* Task and status: src/uni/task.rs                                        *)

DAYS_LEFT == 2

DefaultName == "[Name]"
DefaultDescription == "Description_goes_here"
DefaultSubject == "[Subject]"

Clock == 0..MaxTime

\* Local::now().fixed_offset(): the clock reading, in the local offset
Local_now(now) == [utc |-> now, off |-> 0]

\* mutant of Task_default: the new task is starred
Task_default_starred(now) ==
    [name |-> DefaultName, description |-> DefaultDescription,
     subject |-> DefaultSubject, time |-> Some(Local_now(now)),
     complete |-> FALSE, starred |-> TRUE]

Task_default(now) ==
    [name |-> DefaultName, description |-> DefaultDescription,
     subject |-> DefaultSubject, time |-> Some(Local_now(now)),
     complete |-> FALSE, starred |-> FALSE]

\* mutant of num_days: a started day counts as a whole one
num_days_rounded_up(d) == IF d >= 0 THEN (d + 1) \div 2 ELSE -((-d) \div 2)

\* TimeDelta::num_days: whole days, truncated toward zero (a day is 2 units)
num_days(d) == IF d >= 0 THEN d \div 2 ELSE -((-d) \div 2)

get_delta(task, target) ==
    IF is_some(task.time) THEN Some(unwrap(task.time).utc - target.utc) ELSE None

get_delta_now(task, now) == get_delta(task, Local_now(now))

\* mutant of get_status: a near deadline is Panic even when complete
get_status_panic_first(task, duration) ==
    IF is_none(duration)
    THEN (IF task.complete THEN "Zen" ELSE "Normal")
    ELSE IF num_days(unwrap(duration)) < DAYS_LEFT THEN "Panic"
         ELSE IF task.complete THEN "Zen"
         ELSE "Normal"

get_status(task, duration) ==
    IF is_none(duration)
    THEN (IF task.complete THEN "Zen" ELSE "Normal")
    ELSE IF num_days(unwrap(duration)) < DAYS_LEFT /\ ~task.complete THEN "Panic"
         ELSE IF task.complete THEN "Zen"
         ELSE "Normal"

get_status_now(task, now) == get_status(task, get_delta_now(task, now))

\* PartialEq of Task is derived; DateTime compares the instants only
time_eq(a, b) ==
    \/ is_none(a) /\ is_none(b)
    \/ is_some(a) /\ is_some(b) /\ unwrap(a).utc = unwrap(b).utc

task_eq(a, b) ==
    /\ a.name = b.name
    /\ a.description = b.description
    /\ a.subject = b.subject
    /\ time_eq(a.time, b.time)
    /\ a.complete = b.complete
    /\ a.starred = b.starred

\* mutant of is_default: the deadline is compared as well
is_default_same_time(task, now) == task_eq(task, Task_default(now))

\* mutant of is_default: only the three texts are compared
is_default_by_text(task, now) ==
    LET default_task == Task_default(now)
    IN  /\ task.name = default_task.name
        /\ task.description = default_task.description
        /\ task.subject = default_task.subject

is_default(task, now) ==
    LET default_task == [Task_default(now) EXCEPT !.time = task.time]
    IN  task_eq(task, default_task)

----------------------------------------------------------------------------
(* Storage: src/storages.rs                                                *)

\* DateTime::to_rfc3339: the local date and time followed by the offset
to_rfc3339(dt) == <<dt.utc + dt.off, dt.off>>

\* mutant of parse_from_rfc3339: the offset is read and not applied
parse_from_rfc3339_unshifted(s) == [utc |-> s[1], off |-> s[2]]

\* DateTime::parse_from_rfc3339
parse_from_rfc3339(s) == [utc |-> s[1] - s[2], off |-> s[2]]

from_task(task) ==
    [name |-> task.name, description |-> task.description,
     subject |-> task.subject,
     time |-> IF is_some(task.time) THEN Some(to_rfc3339(unwrap(task.time))) ELSE None,
     complete |-> task.complete, starred |-> task.starred]

to_task(entry) ==
    [name |-> entry.name, description |-> entry.description,
     subject |-> entry.subject,
     time |-> IF is_some(entry.time) THEN Some(parse_from_rfc3339(unwrap(entry.time)))
              ELSE None,
     complete |-> entry.complete, starred |-> entry.starred]

\* The file is [whole, entries]: the entries it holds, and whether the text
\* is a whole serialization (FALSE after a write that stopped part way).
dump(ts) == [whole |-> TRUE, entries |-> [i \in DOMAIN ts |-> from_task(ts[i])]]

read(f) == [i \in DOMAIN f.entries |-> to_task(f.entries[i])]

\* mutant of should_save: only the number of entries is compared
should_save_by_count(f, ts) == Len(f.entries) # Len(ts)

should_save(f, ts) == f # dump(ts)

\* What fs::write can leave behind: the new content, or on an error the old
\* content (the file could not be opened) or the new content cut short.
write_outcomes(f, ts) ==
    LET d == dump(ts)
    IN  [ok : {TRUE}, file : {d}]
        \cup [ok : {FALSE}, file : {f, [d EXCEPT !.whole = FALSE]}]

----------------------------------------------------------------------------
(* Data: src/ui/app.rs                                                     *)

\* mutant of Data_new: the first position is selected in any collection
Data_new_selected(ts) == Some(0)

Data_new(ts) == IF Len(ts) = 0 THEN None ELSE Some(0)

\* mutant of compare: the complete tasks go first
compare_complete_first(task1, task2) ==
    IF task1.complete /\ ~task2.complete THEN "Less"
    ELSE IF ~task1.complete /\ task2.complete THEN "Greater"
    ELSE IF is_some(task1.time) /\ is_none(task2.time) THEN "Less"
    ELSE IF is_none(task1.time) /\ is_some(task2.time) THEN "Greater"
    ELSE IF is_none(task1.time) /\ is_none(task2.time) THEN "Equal"
    ELSE IF unwrap(task1.time).utc < unwrap(task2.time).utc THEN "Less"
    ELSE IF unwrap(task1.time).utc > unwrap(task2.time).utc THEN "Greater"
    ELSE "Equal"

\* mutant of compare: a task without a deadline goes first in its group
compare_deadline_last(task1, task2) ==
    IF task1.complete /\ ~task2.complete THEN "Greater"
    ELSE IF ~task1.complete /\ task2.complete THEN "Less"
    ELSE IF is_some(task1.time) /\ is_none(task2.time) THEN "Greater"
    ELSE IF is_none(task1.time) /\ is_some(task2.time) THEN "Less"
    ELSE IF is_none(task1.time) /\ is_none(task2.time) THEN "Equal"
    ELSE IF unwrap(task1.time).utc < unwrap(task2.time).utc THEN "Less"
    ELSE IF unwrap(task1.time).utc > unwrap(task2.time).utc THEN "Greater"
    ELSE "Equal"

\* the comparator of Data::sort
compare(task1, task2) ==
    IF task1.complete /\ ~task2.complete THEN "Greater"
    ELSE IF ~task1.complete /\ task2.complete THEN "Less"
    ELSE IF is_some(task1.time) /\ is_none(task2.time) THEN "Less"
    ELSE IF is_none(task1.time) /\ is_some(task2.time) THEN "Greater"
    ELSE IF is_none(task1.time) /\ is_none(task2.time) THEN "Equal"
    ELSE IF unwrap(task1.time).utc < unwrap(task2.time).utc THEN "Less"
    ELSE IF unwrap(task1.time).utc > unwrap(task2.time).utc THEN "Greater"
    ELSE "Equal"

Front(s) == SubSeq(s, 1, Len(s) - 1)
Last(s) == s[Len(s)]

\* slice::sort_by is stable: an element goes behind every element that does
\* not compare Greater than it
RECURSIVE insert(_, _)
insert(sorted, t) ==
    IF sorted = <<>> THEN <<t>>
    ELSE IF compare(Last(sorted), t) = "Greater"
         THEN Append(insert(Front(sorted), t), Last(sorted))
         ELSE Append(sorted, t)

\* mutant of sort: the collection is left in the order it has
sort_kept(ts) == ts

RECURSIVE sort(_)
sort(ts) == IF ts = <<>> THEN <<>> ELSE insert(sort(Front(ts)), Last(ts))

\* Data::iter with DataIterator::next: the tasks the filter lets through
iter(ts, fz, now) ==
    SelectSeq(ts, LAMBDA x : ~(get_status_now(x, now) = "Zen" /\ fz))

len(ts, fz, now) == Len(iter(ts, fz, now))

get(ts, fz, now, i) ==
    IF i < len(ts, fz, now) THEN Some(iter(ts, fz, now)[i + 1]) ELSE None

----------------------------------------------------------------------------
(* Inputs.                                                                 *)

\* the deadlines of the tasks that are stored or edited
Times == {Some(Local_now(t)) : t \in Clock}

\* the tasks a storage file holds at startup
StoredTasks ==
    [name : {DefaultName}, description : {DefaultDescription}, subject : {DefaultSubject},
     time : Times, complete : BOOLEAN, starred : {FALSE}]

\* the tasks the user leaves in the editor buffer
EditedTasks ==
    [name : {DefaultName}, description : {DefaultDescription},
     subject : {DefaultSubject}, time : Times, complete : {FALSE}, starred : {TRUE}]

RECURSIVE SeqsUpTo(_, _)
SeqsUpTo(S, n) ==
    IF n = 0 THEN {<<>>}
    ELSE LET shorter == SeqsUpTo(S, n - 1)
         IN  shorter \cup {Append(s, x) : s \in shorter, x \in S}

KeyCodes ==
    {"q", "h", "l", "f", "w", "e", "p", "G", "g", "j", "k", "i", "c", "s", "d",
     "y", "n", "Enter", "Esc", "x"}

----------------------------------------------------------------------------
(* Popups: src/ui/popups.rs, and the two closure popups of the program     *)

\* the popup of App::exit
ExitPopup == [kind |-> "exit", text |-> <<"You have unsaved progress. Save it?">>]

\* the popup of TasksPane::remove; its text names the task
RemovePopup(task) == [kind |-> "remove", text |-> <<task.subject, task.name>>]

\* mutant of confirmation: the cancelling key confirms as well
confirmation_or_cancel(popup, k) ==
    IF popup.kind = "exit" THEN k \in {"Enter", "y", "n", "Esc"} ELSE k \in {"d", "Esc"}

confirmation(popup, k) ==
    IF popup.kind = "exit" THEN k \in {"Enter", "y", "n"} ELSE k = "d"

cancellation(popup, k) == k = "Esc"

----------------------------------------------------------------------------
(* The state after App::new                                                *)

Init ==
    /\ file \in {dump(ts) : ts \in SeqsUpTo(StoredTasks, MaxInit)}
    /\ tasks = read(file)
    /\ index = Data_new(tasks)
    /\ filter_zen = FALSE
    /\ current_pane = "Left"
    /\ table_selected = Some(0)
    /\ show_numbers = FALSE
    /\ current_entry = None
    /\ current_popup = None
    /\ exit = FALSE
    /\ pc = "draw"
    /\ panic = ""
    /\ overflow_checks = "unknown"
    /\ key_event = "none"
    /\ wrote = FALSE
    /\ prev = None
    /\ screen = "alternate"
    /\ arg = None
    /\ ret = None
    /\ calls = <<>>

----------------------------------------------------------------------------
(* App::run and App::draw                                                  *)

\* the fields of the App as an event handler finds them
Snapshot ==
    [tasks |-> tasks, index |-> index, filter_zen |-> filter_zen,
     current_pane |-> current_pane, table_selected |-> table_selected,
     show_numbers |-> show_numbers, current_entry |-> current_entry,
     current_popup |-> current_popup, file |-> file, exit |-> exit]

\* handle_events read the event k
Routed(k) == key_event' = k /\ prev' = Some(Snapshot) /\ UNCHANGED unit_vars

\* ... and its handler stays on the screen it is on
Reads(k) == Routed(k) /\ UNCHANGED screen

\* what rendering the table (into an area that is not empty) leaves in
\* TableState.selected: a selection past the rows is moved to the last row;
\* with no row at all the selection is dropped or kept at 0, depending on the
\* version of the library.
Table_render(selected, rows) ==
    LET clamped == IF is_some(selected) /\ unwrap(selected) >= rows
                   THEN Some(IF rows = 0 THEN 0 ELSE rows - 1)
                   ELSE selected
    IN  {clamped} \cup (IF rows = 0 THEN {None} ELSE {})

\* TasksPane::make_rows unwraps the index once for every row
make_rows_panics(ts, idx, fz, now) == len(ts, fz, now) > 0 /\ is_none(idx)

Draw ==
    /\ pc = "draw" /\ panic = "" /\ ~exit
    /\ key_event' = "none"
    /\ wrote' = FALSE
    /\ prev' = None
    /\ UNCHANGED <<unit_vars, screen>>
    /\ tasks' = sort(tasks)
    /\ UNCHANGED <<index, filter_zen, current_pane, show_numbers, current_entry,
                   current_popup, file, exit, overflow_checks>>
    /\ IF is_some(current_popup)
       THEN pc' = "event" /\ UNCHANGED <<table_selected, panic>>
       ELSE \E now \in Clock :
              IF make_rows_panics(tasks', index, filter_zen, now)
              THEN /\ panic' = "make_rows: unwrap on None"
                   /\ table_selected' = index
                   /\ pc' = pc
              ELSE /\ table_selected' \in Table_render(index, len(tasks', filter_zen, now))
                   /\ pc' = "event"
                   /\ panic' = ""

\* the loop condition of App::run
Return ==
    /\ pc = "draw" /\ panic = "" /\ exit
    /\ pc' = "done"
    /\ UNCHANGED <<tasks, index, filter_zen, current_pane, table_selected,
                   show_numbers, current_entry, current_popup, file, exit, panic,
                   overflow_checks, key_event, wrote, prev, screen, unit_vars>>

\* terminal.draw or event::read returns an error, which run hands on
IoError ==
    /\ pc \in {"draw", "event"} /\ panic = "" /\ (pc = "draw" => ~exit)
    /\ pc' = "failed"
    /\ key_event' = "none"
    /\ wrote' = FALSE
    /\ prev' = None
    /\ UNCHANGED <<tasks, index, filter_zen, current_pane, table_selected,
                   show_numbers, current_entry, current_popup, file, exit, panic,
                   overflow_checks, screen, unit_vars>>

\* an event that is no key press
OtherEvent ==
    /\ pc = "event" /\ panic = ""
    /\ Reads("Resize")
    /\ pc' = "draw"
    /\ UNCHANGED <<tasks, index, filter_zen, current_pane, table_selected,
                   show_numbers, current_entry, current_popup, file, exit, panic,
                   overflow_checks, wrote>>

----------------------------------------------------------------------------
(* App::handle_key_event with a popup open                                 *)

\* mutant of PopupAction: closing a popup terminates as well
PopupAction_closing_exits(action) ==
    /\ exit' = (IF action \in {"Exit", "Close"} THEN TRUE ELSE exit)
    /\ current_popup' = (IF action = "None" THEN current_popup ELSE None)
    /\ pc' = "draw"
    /\ panic' = ""

\* what handle_key_event does with the action the popup returns
PopupAction(action) ==
    /\ exit' = (IF action = "Exit" THEN TRUE ELSE exit)
    /\ current_popup' = (IF action = "None" THEN current_popup ELSE None)
    /\ pc' = "draw"
    /\ panic' = ""

\* mutant of exit_payload: Enter and 'y' terminate without the write
exit_payload_unsaved(k) ==
    /\ UNCHANGED <<tasks, file, wrote>>
    /\ IF k \in {"y", "Enter", "n"} THEN PopupAction("Exit") ELSE PopupAction("None")

\* mutant of exit_payload: 'n' writes like Enter and 'y'
exit_payload_saving(k) ==
    /\ UNCHANGED tasks
    /\ IF k \in {"y", "Enter", "n"}
       THEN /\ wrote' = TRUE
            /\ \E o \in write_outcomes(file, tasks) :
                 /\ file' = o.file
                 /\ IF o.ok
                    THEN PopupAction("Exit")
                    ELSE /\ panic' = "exit popup: unwrap on a write error"
                         /\ UNCHANGED <<exit, current_popup, pc>>
       ELSE /\ UNCHANGED <<file, wrote>>
            /\ PopupAction("None")

\* the payload closure of App::exit
exit_payload(k) ==
    /\ UNCHANGED tasks
    /\ IF k \in {"y", "Enter"}
       THEN /\ wrote' = TRUE
            /\ \E o \in write_outcomes(file, tasks) :
                 /\ file' = o.file
                 /\ IF o.ok
                    THEN PopupAction("Exit")
                    ELSE /\ panic' = "exit popup: unwrap on a write error"
                         /\ UNCHANGED <<exit, current_popup, pc>>
       ELSE /\ UNCHANGED <<file, wrote>>
            /\ IF k = "n" THEN PopupAction("Exit") ELSE PopupAction("None")

\* mutant of remove_payload: the first task of the collection is removed
remove_payload_first ==
    /\ UNCHANGED <<file, wrote>>
    /\ IF is_none(index)
       THEN /\ panic' = "remove popup: unwrap on None"
            /\ UNCHANGED <<tasks, exit, current_popup, pc>>
       ELSE IF unwrap(index) >= Len(tasks)
       THEN /\ panic' = "remove popup: removal index out of bounds"
            /\ UNCHANGED <<tasks, exit, current_popup, pc>>
       ELSE /\ tasks' = Tail(tasks)
            /\ PopupAction("Close")

\* the payload closure of TasksPane::remove
remove_payload ==
    /\ UNCHANGED <<file, wrote>>
    /\ IF is_none(index)
       THEN /\ panic' = "remove popup: unwrap on None"
            /\ UNCHANGED <<tasks, exit, current_popup, pc>>
       ELSE IF unwrap(index) >= Len(tasks)
       THEN /\ panic' = "remove popup: removal index out of bounds"
            /\ UNCHANGED <<tasks, exit, current_popup, pc>>
       ELSE /\ tasks' = SubSeq(tasks, 1, unwrap(index))
                        \o SubSeq(tasks, unwrap(index) + 2, Len(tasks))
            /\ PopupAction("Close")

\* ClosurePopup::handle_key_event, and the match on its action
PopupKey(k) ==
    /\ pc = "event" /\ panic = "" /\ is_some(current_popup)
    /\ Reads(k)
    /\ UNCHANGED <<index, filter_zen, current_pane, table_selected, show_numbers,
                   current_entry, overflow_checks>>
    /\ LET popup == unwrap(current_popup)
       IN  IF confirmation(popup, k)
           THEN IF popup.kind = "exit" THEN exit_payload(k) ELSE remove_payload
           ELSE /\ UNCHANGED <<tasks, file, wrote>>
                /\ IF cancellation(popup, k)
                   THEN PopupAction("Close")
                   ELSE PopupAction("None")

----------------------------------------------------------------------------
(* App::handle_key_event without a popup: the global keys                  *)

\* mutant of NoPopup: the key is routed on although a popup took it
NoPopup_routed_on == pc = "event" /\ panic = ""

\* the guard of every key handled without a popup
NoPopup == pc = "event" /\ panic = "" /\ is_none(current_popup)

\* mutant of App_exit: the dirty check is skipped
App_exit_unasked == exit' = TRUE /\ UNCHANGED current_popup

\* mutant of App_exit: the popup is opened whatever should_save says
App_exit_asking == current_popup' = Some(ExitPopup) /\ UNCHANGED exit

\* App::exit
App_exit ==
    IF ~should_save(file, tasks)
    THEN exit' = TRUE /\ UNCHANGED current_popup
    ELSE current_popup' = Some(ExitPopup) /\ UNCHANGED exit

KeyQ ==
    /\ NoPopup
    /\ Reads("q")
    /\ App_exit
    /\ pc' = "draw"
    /\ UNCHANGED <<tasks, index, filter_zen, current_pane, table_selected,
                   show_numbers, current_entry, file, panic, overflow_checks, wrote>>

\* mutant of KeyH: leave is not called on the right pane
KeyH_keeps_entry ==
    /\ NoPopup
    /\ Reads("h")
    /\ current_pane' = "Left"
    /\ pc' = "draw"
    /\ UNCHANGED <<tasks, index, filter_zen, table_selected, show_numbers,
                   current_entry, current_popup, file, exit, panic, overflow_checks,
                   wrote>>

\* TasksPane keeps the default enter and leave; DescriptionPane::leave
KeyH ==
    /\ NoPopup
    /\ Reads("h")
    /\ current_entry' = None
    /\ current_pane' = "Left"
    /\ pc' = "draw"
    /\ UNCHANGED <<tasks, index, filter_zen, table_selected, show_numbers,
                   current_popup, file, exit, panic, overflow_checks, wrote>>

\* mutant of KeyL: the focus goes to the left pane
KeyL_left ==
    /\ NoPopup
    /\ Reads("l")
    /\ current_entry' = Some("Header")
    /\ current_pane' = "Left"
    /\ pc' = "draw"
    /\ UNCHANGED <<tasks, index, filter_zen, table_selected, show_numbers,
                   current_popup, file, exit, panic, overflow_checks, wrote>>

\* DescriptionPane::enter
KeyL ==
    /\ NoPopup
    /\ Reads("l")
    /\ current_entry' = Some("Header")
    /\ current_pane' = "Right"
    /\ pc' = "draw"
    /\ UNCHANGED <<tasks, index, filter_zen, table_selected, show_numbers,
                   current_popup, file, exit, panic, overflow_checks, wrote>>

\* mutant of toggle_filter_zen: the index is clamped into the old view
toggle_filter_zen_old_len(ts, idx, fz, now) ==
    LET current_len == len(ts, fz, now)
        clamped == IF is_some(idx)
                   THEN (IF current_len = 0 THEN None
                         ELSE Some(Min(unwrap(idx), current_len - 1)))
                   ELSE None
    IN  IF is_none(clamped) /\ current_len > 0 THEN Some(0) ELSE clamped

\* Data::toggle_filter_zen: the index it leaves
toggle_filter_zen(ts, idx, fz, now) ==
    LET current_len == len(ts, ~fz, now)
        clamped == IF is_some(idx)
                   THEN (IF current_len = 0 THEN None
                         ELSE Some(Min(unwrap(idx), current_len - 1)))
                   ELSE None
    IN  IF is_none(clamped) /\ current_len > 0 THEN Some(0) ELSE clamped

\* mutant of KeyF: the tasks the filter hides are dropped from the collection
KeyF_dropping ==
    /\ NoPopup
    /\ Reads("f")
    /\ filter_zen' = ~filter_zen
    /\ \E now \in Clock :
         /\ index' = toggle_filter_zen(tasks, index, filter_zen, now)
         /\ tasks' = iter(tasks, filter_zen', now)
    /\ pc' = "draw"
    /\ UNCHANGED <<current_pane, table_selected, show_numbers, current_entry,
                   current_popup, file, exit, panic, overflow_checks, wrote>>

KeyF ==
    /\ NoPopup
    /\ Reads("f")
    /\ filter_zen' = ~filter_zen
    /\ \E now \in Clock : index' = toggle_filter_zen(tasks, index, filter_zen, now)
    /\ pc' = "draw"
    /\ UNCHANGED <<tasks, current_pane, table_selected, show_numbers, current_entry,
                   current_popup, file, exit, panic, overflow_checks, wrote>>

\* App::save, unwrapped
KeyW ==
    /\ NoPopup
    /\ Reads("w")
    /\ wrote' = TRUE
    /\ \E o \in write_outcomes(file, tasks) :
         /\ file' = o.file
         /\ IF o.ok
            THEN pc' = "draw" /\ panic' = ""
            ELSE panic' = "save: unwrap on a write error" /\ pc' = pc
    /\ UNCHANGED <<tasks, index, filter_zen, current_pane, table_selected,
                   show_numbers, current_entry, current_popup, exit, overflow_checks>>

\* TaskReader::read: the task the editor returns, or no task on an error
Reader_read(old_task) == {Some(t) : t \in EditedTasks} \cup {None}

\* EnterAlternateScreen and terminal.clear, each of which may fail
Reenters ==
    \/ screen' = "alternate" /\ pc' = "draw"
    \/ screen' = "main" /\ pc' = "failed"
    \/ screen' = "alternate" /\ pc' = "failed"

\* the 'e' arm: LeaveAlternateScreen, App::edit unwrapped, EnterAlternateScreen
\* and terminal.clear
KeyE ==
    /\ NoPopup
    /\ Routed("e")
    /\ UNCHANGED <<index, filter_zen, current_pane, table_selected, show_numbers,
                   current_entry, current_popup, file, exit, overflow_checks, wrote>>
    /\ \/ \* LeaveAlternateScreen fails
          pc' = "failed" /\ UNCHANGED <<tasks, panic, screen>>
       \/ IF is_some(index) /\ unwrap(index) < Len(tasks)
          THEN \E r \in Reader_read(tasks[unwrap(index) + 1]) :
                 IF is_none(r)
                 THEN /\ panic' = "edit: unwrap on a reader error"
                      /\ screen' = "main"
                      /\ UNCHANGED <<tasks, pc>>
                 ELSE /\ tasks' = [tasks EXCEPT ![unwrap(index) + 1] = unwrap(r)]
                      /\ panic' = ""
                      /\ Reenters
          ELSE /\ UNCHANGED <<tasks, panic>>
               /\ Reenters

\* mutant of KeyP: adding a task saves the collection
KeyP_saving ==
    /\ NoPopup
    /\ Len(tasks) < MaxTasks
    /\ Reads("p")
    /\ \E now \in Clock : tasks' = Append(tasks, Task_default(now))
    /\ file' = dump(tasks')
    /\ pc' = "draw"
    /\ UNCHANGED <<index, filter_zen, current_pane, table_selected, show_numbers,
                   current_entry, current_popup, exit, panic, overflow_checks,
                   wrote>>

\* App::add_default
KeyP ==
    /\ NoPopup
    /\ Len(tasks) < MaxTasks
    /\ Reads("p")
    /\ \E now \in Clock : tasks' = Append(tasks, Task_default(now))
    /\ pc' = "draw"
    /\ UNCHANGED <<index, filter_zen, current_pane, table_selected, show_numbers,
                   current_entry, current_popup, file, exit, panic, overflow_checks,
                   wrote>>

----------------------------------------------------------------------------
(* The pane-local keys: src/ui/panes.rs                                    *)

GlobalKeys == {"q", "h", "l", "f", "w", "e", "p"}

\* a - b on usize: with overflow checks an underflow panics, without them it
\* wraps; the first underflow shows which build runs
usize_sub(a, b) ==
    IF a >= b
    THEN {[panics |-> FALSE, value |-> a - b, checks |-> overflow_checks]}
    ELSE {[panics |-> FALSE, value |-> wrapping_sub(a, b), checks |-> "off"]}
         \cup (IF overflow_checks = "unknown"
               THEN {[panics |-> TRUE, value |-> 0, checks |-> "on"]}
               ELSE {})

\* a pane handler returns its popup request to handle_key_event
Returns(popup) == current_popup' = popup /\ pc' = "draw" /\ panic' = ""

Panics(reason) == panic' = reason /\ UNCHANGED <<current_popup, pc>>

TasksPane_first ==
    /\ table_selected' = Some(0)
    /\ index' = Some(0)
    /\ Returns(None)
    /\ UNCHANGED <<tasks, show_numbers, current_entry, overflow_checks>>

TasksPane_last ==
    /\ table_selected' = Some(USIZE_MAX)
    /\ UNCHANGED <<tasks, show_numbers, current_entry>>
    /\ \E now \in Clock : \E o \in usize_sub(len(tasks, filter_zen, now), 1) :
         /\ overflow_checks' = o.checks
         /\ IF o.panics
            THEN Panics("last: len - 1 underflows") /\ UNCHANGED index
            ELSE index' = Some(Min(USIZE_MAX, o.value)) /\ Returns(None)

\* mutant of TasksPane_next: the selection stops at the last row
TasksPane_next_saturating ==
    /\ UNCHANGED <<tasks, show_numbers, current_entry>>
    /\ IF is_none(table_selected)
       THEN /\ table_selected' = Some(0)
            /\ index' = Some(0)
            /\ Returns(None)
            /\ UNCHANGED overflow_checks
       ELSE \E now \in Clock : \E o \in usize_sub(len(tasks, filter_zen, now), 1) :
              /\ overflow_checks' = o.checks
              /\ IF o.panics
                 THEN Panics("next: len - 1 underflows")
                      /\ UNCHANGED <<index, table_selected>>
                 ELSE LET i == IF unwrap(table_selected) >= o.value THEN o.value
                               ELSE unwrap(table_selected) + 1
                      IN  /\ table_selected' = Some(i)
                          /\ index' = Some(i)
                          /\ Returns(None)

TasksPane_next ==
    /\ UNCHANGED <<tasks, show_numbers, current_entry>>
    /\ IF is_none(table_selected)
       THEN /\ table_selected' = Some(0)
            /\ index' = Some(0)
            /\ Returns(None)
            /\ UNCHANGED overflow_checks
       ELSE \E now \in Clock : \E o \in usize_sub(len(tasks, filter_zen, now), 1) :
              /\ overflow_checks' = o.checks
              /\ IF o.panics
                 THEN Panics("next: len - 1 underflows")
                      /\ UNCHANGED <<index, table_selected>>
                 ELSE LET i == IF unwrap(table_selected) >= o.value THEN 0
                               ELSE unwrap(table_selected) + 1
                      IN  /\ table_selected' = Some(i)
                          /\ index' = Some(i)
                          /\ Returns(None)

TasksPane_previous ==
    /\ UNCHANGED <<tasks, show_numbers, current_entry>>
    /\ IF is_none(table_selected)
       THEN /\ table_selected' = Some(0)
            /\ index' = Some(0)
            /\ Returns(None)
            /\ UNCHANGED overflow_checks
       ELSE IF unwrap(table_selected) # 0
       THEN /\ table_selected' = Some(unwrap(table_selected) - 1)
            /\ index' = Some(unwrap(table_selected) - 1)
            /\ Returns(None)
            /\ UNCHANGED overflow_checks
       ELSE \E now \in Clock : \E o \in usize_sub(len(tasks, filter_zen, now), 1) :
              /\ overflow_checks' = o.checks
              /\ IF o.panics
                 THEN Panics("previous: len - 1 underflows")
                      /\ UNCHANGED <<index, table_selected>>
                 ELSE /\ table_selected' = Some(o.value)
                      /\ index' = Some(o.value)
                      /\ Returns(None)

TasksPane_toggle_numbers ==
    /\ show_numbers' = ~show_numbers
    /\ Returns(None)
    /\ UNCHANGED <<tasks, index, table_selected, current_entry, overflow_checks>>

\* Data::toggle_task_status: the collection it leaves (indexing checked by the caller)
toggle_task_status(ts, i) == [ts EXCEPT ![i + 1].complete = ~ts[i + 1].complete]

\* Data::toggle_task_star
toggle_task_star(ts, i) == [ts EXCEPT ![i + 1].starred = ~ts[i + 1].starred]

Data_toggle(k) ==
    /\ UNCHANGED <<index, table_selected, show_numbers, current_entry, overflow_checks>>
    /\ IF is_none(index)
       THEN UNCHANGED tasks /\ Returns(None)
       ELSE IF unwrap(index) >= Len(tasks)
       THEN UNCHANGED tasks /\ Panics("toggle: index out of bounds")
       ELSE /\ tasks' = IF k = "c" THEN toggle_task_status(tasks, unwrap(index))
                        ELSE toggle_task_star(tasks, unwrap(index))
            /\ Returns(None)

\* mutant of TasksPane_remove: the index is moved back into the collection
TasksPane_remove_reselect ==
    /\ UNCHANGED <<table_selected, show_numbers, current_entry, overflow_checks>>
    /\ IF is_some(index) /\ unwrap(index) < Len(tasks)
       THEN LET task == tasks[unwrap(index) + 1]
            IN  \E now \in Clock :
                  IF is_default(task, now)
                  THEN /\ tasks' = SubSeq(tasks, 1, unwrap(index))
                                   \o SubSeq(tasks, unwrap(index) + 2, Len(tasks))
                       /\ index' = IF Len(tasks') = 0 THEN None
                                   ELSE Some(Min(unwrap(index), Len(tasks') - 1))
                       /\ Returns(None)
                  ELSE /\ UNCHANGED <<tasks, index>>
                       /\ Returns(Some(RemovePopup(task)))
       ELSE UNCHANGED <<tasks, index>> /\ Returns(None)

TasksPane_remove ==
    /\ UNCHANGED <<index, table_selected, show_numbers, current_entry, overflow_checks>>
    /\ IF is_some(index) /\ unwrap(index) < Len(tasks)
       THEN LET task == tasks[unwrap(index) + 1]
            IN  \E now \in Clock :
                  IF is_default(task, now)
                  THEN /\ tasks' = SubSeq(tasks, 1, unwrap(index))
                                   \o SubSeq(tasks, unwrap(index) + 2, Len(tasks))
                       /\ Returns(None)
                  ELSE UNCHANGED tasks /\ Returns(Some(RemovePopup(task)))
       ELSE UNCHANGED tasks /\ Returns(None)

TasksPane_handle_key_event(k) ==
    CASE k = "G" -> TasksPane_last
      [] k = "g" -> TasksPane_first
      [] k = "j" -> TasksPane_next
      [] k = "k" -> TasksPane_previous
      [] k = "i" -> TasksPane_toggle_numbers
      [] k \in {"c", "s"} -> Data_toggle(k)
      [] k = "d" -> TasksPane_remove
      [] OTHER -> /\ Returns(None)
                  /\ UNCHANGED <<tasks, index, table_selected, show_numbers,
                                 current_entry, overflow_checks>>

DescriptionPane_next(entry) ==
    IF is_none(entry) THEN None
    ELSE CASE unwrap(entry) = "Header" -> Some("Deadline")
           [] unwrap(entry) = "Deadline" -> Some("Description")
           [] unwrap(entry) = "Description" -> Some("Header")

\* mutant of DescriptionPane_previous: the sub-focus moves forward
DescriptionPane_previous_forward(entry) == DescriptionPane_next(entry)

DescriptionPane_previous(entry) ==
    IF is_none(entry) THEN None
    ELSE CASE unwrap(entry) = "Header" -> Some("Description")
           [] unwrap(entry) = "Deadline" -> Some("Header")
           [] unwrap(entry) = "Description" -> Some("Deadline")

DescriptionPane_handle_key_event(k) ==
    /\ current_entry' = CASE k = "j" -> DescriptionPane_next(current_entry)
                          [] k = "k" -> DescriptionPane_previous(current_entry)
                          [] OTHER -> current_entry
    /\ Returns(None)
    /\ UNCHANGED <<tasks, index, table_selected, show_numbers, overflow_checks>>

\* the last arm of the match in handle_key_event
PaneKey(k) ==
    /\ NoPopup
    /\ k \notin GlobalKeys
    /\ Reads(k)
    /\ UNCHANGED <<filter_zen, current_pane, file, exit, wrote>>
    /\ IF current_pane = "Left"
       THEN TasksPane_handle_key_event(k)
       ELSE DescriptionPane_handle_key_event(k)

----------------------------------------------------------------------------
(* The specification                                                       *)

Next ==
    \/ Draw
    \/ Return
    \/ IoError
    \/ OtherEvent
    \/ \E k \in KeyCodes : PopupKey(k)
    \/ KeyQ
    \/ KeyH
    \/ KeyL
    \/ KeyF
    \/ KeyW
    \/ KeyE
    \/ KeyP
    \/ \E k \in KeyCodes : PaneKey(k)

Spec == Init /\ [][Next]_vars

----------------------------------------------------------------------------
(* Properties                                                              *)

\* the positions in Data.tasks of the rows of the filtered view
view_positions(ts, fz, now) ==
    SelectSeq([j \in 1..Len(ts) |-> j],
              LAMBDA j : ~(get_status_now(ts[j], now) = "Zen" /\ fz))

\* the panics of indexing, of unwrapping the selection and of len - 1
InputPanics ==
    {"make_rows: unwrap on None", "toggle: index out of bounds",
     "remove popup: unwrap on None", "remove popup: removal index out of bounds",
     "last: len - 1 underflows", "next: len - 1 underflows",
     "previous: len - 1 underflows"}

\* C1: no key handler and no render panics on an out-of-bounds index, on an
\* absent selection index or on the underflow of len - 1.
C1_NoInputPanic == panic \notin InputPanics

\* C2: the selection index is present if and only if the filtered view is
\* not empty.
C2_IndexIffViewNonEmpty ==
    \A now \in Clock : is_some(index) <=> len(tasks, filter_zen, now) > 0

\* C3: a present selection index addresses a row of the filtered view.
C3_IndexInView ==
    \A now \in Clock : is_some(index) => unwrap(index) < len(tasks, filter_zen, now)

\* C4: 'c' and 's' in the tasks pane flip the flag of the task that
\* Data.get(index) returns, and change no other task.
C4_ToggleSelectedRow ==
    [][(pc = "event" /\ is_none(current_popup) /\ current_pane = "Left"
        /\ key_event' \in {"c", "s"})
       => \A now \in Clock :
            LET rows == view_positions(tasks, filter_zen, now)
                i == unwrap(index)
            IN  IF is_some(index) /\ is_some(get(tasks, filter_zen, now, i))
                THEN tasks' = IF key_event' = "c"
                              THEN toggle_task_status(tasks, rows[i + 1] - 1)
                              ELSE toggle_task_star(tasks, rows[i + 1] - 1)
                ELSE tasks' = tasks]_vars

\* the state in which the handler of this iteration started
before == unwrap(prev)

\* a handler has run in this iteration, on the key k
handled(k) == is_some(prev) /\ key_event = k

\* C5: with a popup open a key goes to the popup only: no global key and no
\* pane handler acts, and a key that neither confirms nor cancels changes
\* nothing and keeps the popup.
C5_PopupCapturesKeys ==
    (is_some(prev) /\ is_some(before.current_popup) /\ key_event \in KeyCodes)
    => LET popup == unwrap(before.current_popup)
           k == key_event
       IN  /\ index = before.index
           /\ filter_zen = before.filter_zen
           /\ current_pane = before.current_pane
           /\ table_selected = before.table_selected
           /\ show_numbers = before.show_numbers
           /\ current_entry = before.current_entry
           /\ current_popup \in {before.current_popup, None}
           /\ tasks # before.tasks => popup.kind = "remove" /\ k = "d"
           /\ (wrote \/ file # before.file)
              => popup.kind = "exit" /\ k \in {"Enter", "y"}
           /\ exit # before.exit
              => popup.kind = "exit" /\ k \in {"Enter", "y", "n"}
           /\ (~confirmation(popup, k) /\ ~cancellation(popup, k))
              => /\ tasks = before.tasks
                 /\ current_popup = before.current_popup
                 /\ file = before.file
                 /\ exit = before.exit
                 /\ panic = ""
                 /\ ~wrote

C5_Witness ==
    /\ handled("h") /\ is_some(before.current_popup) /\ is_some(current_popup)
    /\ current_pane = "Right" /\ current_entry # None

\* C6: 'q' without a popup sets the terminate flag and opens no popup when
\* should_save is false; it leaves the flag and opens the confirm-save popup
\* when should_save is true. With the flag set no popup is open.
C6_QuitAsksOnlyWhenDirty ==
    /\ (handled("q") /\ is_none(before.current_popup))
       => IF ~should_save(before.file, before.tasks)
          THEN exit /\ is_none(current_popup)
          ELSE ~exit /\ current_popup = Some(ExitPopup)
    /\ exit => is_none(current_popup)

C6_Witness ==
    /\ handled("q") /\ is_none(before.current_popup)
    /\ current_popup = Some(ExitPopup) /\ ~exit
    /\ should_save(file, tasks) /\ file.whole

\* C7: Enter or 'y' in the exit popup writes the in-memory tasks to the
\* storage and then sets the terminate flag and drops the popup: the flag is
\* set only with the tasks persisted.
C7_ConfirmSavesThenExits ==
    (is_some(prev) /\ before.current_popup = Some(ExitPopup)
     /\ key_event \in {"Enter", "y"})
    => /\ wrote
       /\ tasks = before.tasks
       /\ exit => file = dump(before.tasks)
       /\ panic = "" => exit /\ file = dump(before.tasks) /\ is_none(current_popup)
       /\ panic # "" => panic = "exit popup: unwrap on a write error"

C7_Witness ==
    /\ is_some(prev) /\ before.current_popup = Some(ExitPopup)
    /\ key_event \in {"Enter", "y"} /\ wrote /\ exit /\ panic = ""
    /\ file = dump(tasks) /\ file # before.file
    /\ is_none(current_popup) /\ Len(tasks) > 0

\* C8: 'n' in the exit popup sets the terminate flag and writes nothing; from
\* the 'q' that opened the popup on, the storage file keeps its content.
C8_DeclineExitsWithoutSaving ==
    [][((current_popup = Some(ExitPopup) \/ current_popup' = Some(ExitPopup))
        /\ key_event' \notin {"Enter", "y"})
       => /\ file' = file
          /\ ~wrote'
          /\ (pc = "event" /\ key_event' = "n")
             => exit' /\ is_none(current_popup') /\ panic' = ""]_vars

C8_Witness ==
    /\ handled("n") /\ before.current_popup = Some(ExitPopup)
    /\ exit /\ ~wrote /\ is_none(current_popup) /\ file = before.file
    /\ should_save(file, tasks) /\ panic = "" /\ pc = "done"

\* the popup returns the Exit action for the key k
popup_exits(popup, k) ==
    /\ popup = Some(ExitPopup)
    /\ k \in {"Enter", "y", "n"}

C10_WritesOnlyOnSaveKeys ==
    [][(file' # file \/ (wrote' /\ ~wrote))
       => /\ pc = "event"
          /\ \/ is_none(current_popup) /\ key_event' = "w"
             \/ current_popup = Some(ExitPopup) /\ key_event' \in {"Enter", "y"}]_vars

C10_Witness ==
    /\ handled("w") /\ wrote /\ panic = "" /\ file = dump(tasks)
    /\ file # before.file /\ Len(tasks) > 0 /\ pc = "draw"

\* a task that differs from a fresh default task in its deadline at most
unedited(task) ==
    /\ task.name = "[Name]"
    /\ task.description = "Description_goes_here"
    /\ task.subject = "[Subject]"
    /\ ~task.complete
    /\ ~task.starred

\* C11: 'd' in the tasks pane on a selected task removes the task at once and
\* opens no popup when the task is_default; otherwise it opens the
\* delete-confirmation popup and leaves the collection as it is.
C11_DefaultDeletedUnasked ==
    (handled("d") /\ is_none(before.current_popup) /\ before.current_pane = "Left"
     /\ is_some(before.index))
    => \A now \in Clock :
         LET i == unwrap(before.index)
             selected == get(before.tasks, before.filter_zen, now, i)
             rows == view_positions(before.tasks, before.filter_zen, now)
         IN  is_some(selected)
             => IF unedited(unwrap(selected))
                THEN /\ tasks = SubSeq(before.tasks, 1, rows[i + 1] - 1)
                                \o SubSeq(before.tasks, rows[i + 1] + 1,
                                          Len(before.tasks))
                     /\ is_none(current_popup)
                     /\ panic = ""
                ELSE /\ current_popup = Some(RemovePopup(unwrap(selected)))
                     /\ tasks = before.tasks
                     /\ panic = ""

C11_Witness ==
    /\ handled("d") /\ is_none(before.current_popup) /\ before.current_pane = "Left"
    /\ before.index = Some(1) /\ Len(before.tasks) = 2
    /\ unedited(before.tasks[2])
    /\ tasks = <<before.tasks[1]>> /\ is_none(current_popup)

\* C12: a Reader failure during 'e' is recovered: whatever the reader
\* returns, the handler of 'e' ends without a panic and without a popup.
C12_ReaderErrorRecovered ==
    handled("e") => panic = "" /\ is_none(current_popup)

\* C13: a failing storage write, on 'w' or on Enter or 'y' in the exit popup,
\* does not crash the process.
C13_WriteErrorSurfaced ==
    wrote => /\ panic = ""
             /\ (should_save(file, tasks) => ~exit)

----------------------------------------------------------------------------
(* Properties of the popups, the loop and the panes                        *)

\* the collection without the task at position i (counted from 0)
without(ts, i) == SubSeq(ts, 1, i) \o SubSeq(ts, i + 2, Len(ts))

\* C21: a key that confirms a popup runs its effect once and the popup
\* returns the action of the effect (Close for the delete popup, Exit for the
\* exit popup, whose effect on Enter and 'y' is the write and panics when the
\* write fails); Esc returns Close and runs no effect: no popup is open, and
\* the tasks, the selection, the storage file and the terminate flag are as
\* they were.
C21_CancelRunsNoEffect ==
    (is_some(prev) /\ is_some(before.current_popup) /\ key_event \in KeyCodes)
    => LET popup == unwrap(before.current_popup)
           k == key_event
       IN  /\ k = "Esc"
              => /\ is_none(current_popup)
                 /\ tasks = before.tasks
                 /\ index = before.index
                 /\ table_selected = before.table_selected
                 /\ file = before.file
                 /\ ~wrote
                 /\ exit = before.exit
                 /\ ~exit
                 /\ panic = ""
           /\ (popup.kind = "remove" /\ k = "d")
              => /\ Len(tasks) = Len(before.tasks) - 1
                 /\ is_none(current_popup)
                 /\ exit = before.exit
                 /\ file = before.file
                 /\ ~wrote
                 /\ panic = ""
           /\ (popup.kind = "exit" /\ k \in {"Enter", "y", "n"})
              => /\ tasks = before.tasks
                 /\ wrote = (k # "n")
                 /\ k = "n" => file = before.file /\ panic = ""
                 /\ IF panic = ""
                    THEN exit /\ is_none(current_popup)
                    ELSE /\ panic = "exit popup: unwrap on a write error"
                         /\ ~exit /\ current_popup = before.current_popup

C21_Witness ==
    /\ handled("Esc") /\ is_some(before.current_popup)
    /\ unwrap(before.current_popup).kind = "remove"
    /\ is_none(current_popup) /\ Len(tasks) = 2 /\ tasks = before.tasks
    /\ index = Some(1) /\ ~exit /\ should_save(file, tasks)

\* the delete-confirmation popup is open
remove_popup_open(popup) == is_some(popup) /\ unwrap(popup).kind = "remove"

\* C22: the delete popup is opened on the task at the selection index, which
\* it names and which is the selected row of the view; while it is open no
\* step (a draw with its sort, a key the popup ignores) changes the
\* collection or the index; 'd' then removes the task at the index and no
\* other, and closes the popup.
C22_ConfirmRemovesNamedTask ==
    [][/\ (~remove_popup_open(current_popup) /\ remove_popup_open(current_popup'))
          => /\ tasks' = tasks /\ index' = index
             /\ is_some(index) /\ unwrap(index) < Len(tasks)
             /\ current_popup' = Some(RemovePopup(tasks[unwrap(index) + 1]))
             /\ \A now \in Clock :
                  LET selected == get(tasks, filter_zen, now, unwrap(index))
                  IN  is_some(selected) => unwrap(selected) = tasks[unwrap(index) + 1]
       /\ (remove_popup_open(current_popup) /\ remove_popup_open(current_popup'))
          => /\ tasks' = tasks /\ index' = index /\ filter_zen' = filter_zen
             /\ current_popup' = current_popup
       /\ (remove_popup_open(current_popup) /\ pc = "event" /\ key_event' = "d")
          => /\ is_some(index) /\ unwrap(index) < Len(tasks)
             /\ tasks' = without(tasks, unwrap(index))
             /\ is_none(current_popup')
             /\ exit' = exit /\ file' = file /\ panic' = ""]_vars

C22_Witness ==
    /\ handled("d") /\ remove_popup_open(before.current_popup)
    /\ before.index = Some(1) /\ Len(before.tasks) = 2
    /\ before.tasks[1] # before.tasks[2]
    /\ tasks = <<before.tasks[1]>> /\ is_none(current_popup) /\ panic = ""

\* the order Data::sort establishes: incomplete before complete, and in each
\* group the deadlines first, the earlier ones first
ordered(ts) ==
    \A i, j \in 1..Len(ts) :
      i < j
      => /\ ts[i].complete => ts[j].complete
         /\ ts[i].complete = ts[j].complete
            => /\ is_none(ts[i].time) => is_none(ts[j].time)
               /\ (is_some(ts[i].time) /\ is_some(ts[j].time))
                  => unwrap(ts[i].time).utc <= unwrap(ts[j].time).utc

\* C23: an event is read only right after a draw, with or without a popup,
\* and the draw sorts: the handler of every event finds the collection in
\* the order of the comparator, and between two draws one event is handled
\* and no more (a handler that panics ends the process where it stands).
C23_SortedWhenRouted ==
    /\ (pc = "event" /\ panic = "")
       => /\ ordered(tasks)
          /\ is_none(prev) /\ key_event = "none" /\ ~wrote
    /\ is_some(prev) => /\ ordered(before.tasks)
                        /\ pc = "event" => panic # ""
                        /\ key_event # "none"
    /\ key_event # "none" => is_some(prev)

C23_Witness ==
    /\ is_some(prev) /\ is_some(before.current_popup) /\ key_event = "x"
    /\ Len(before.tasks) = 2
    /\ ~before.tasks[1].complete /\ before.tasks[2].complete
    /\ Len(file.entries) = 2
    /\ file.entries[1].complete /\ ~file.entries[2].complete

\* the state App::new returns: nothing drawn, nothing handled
constructed == pc = "draw" /\ is_none(prev) /\ panic = ""

\* C25: the App starts in Normal state: no popup, the terminate flag unset,
\* the focus on the left pane, the filter off, and the selection index 0 for
\* a loaded collection that is not empty and absent for an empty one.
C25_StartsNormal ==
    constructed
    => /\ is_none(current_popup)
       /\ ~exit
       /\ current_pane = "Left"
       /\ ~filter_zen
       /\ tasks = read(file)
       /\ index = IF tasks = <<>> THEN None ELSE Some(0)

C25_Witness ==
    /\ constructed /\ Len(tasks) = 2 /\ index = Some(0)
    /\ tasks[1].complete /\ ~tasks[2].complete

\* the keys the focused pane is given
PaneKeys == KeyCodes \ {"q", "h", "l", "f", "w", "e", "p"}

\* C26: without a popup 'h' gives the focus to the left pane and 'l' to the
\* right one, with leave() on the pane that loses it and enter() on the pane
\* that gains it; no other key moves the focus, and a pane-local key acts on
\* the focused pane only.
C26_FocusFollowsHL ==
    (is_some(prev) /\ is_none(before.current_popup) /\ key_event \in KeyCodes)
    => LET k == key_event
       IN  /\ k = "h" => current_pane = "Left" /\ is_none(current_entry)
           /\ k = "l" => current_pane = "Right" /\ current_entry = Some("Header")
           /\ k \in {"h", "l"}
              => /\ tasks = before.tasks /\ index = before.index
                 /\ show_numbers = before.show_numbers
                 /\ is_none(current_popup) /\ panic = ""
           /\ k \notin {"h", "l"} => current_pane = before.current_pane
           /\ (k \in PaneKeys /\ before.current_pane = "Left")
              => /\ current_entry = before.current_entry
                 /\ (k = "i" /\ panic = "") => show_numbers = ~before.show_numbers
           /\ (k \in PaneKeys /\ before.current_pane = "Right")
              => /\ tasks = before.tasks /\ index = before.index
                 /\ table_selected = before.table_selected
                 /\ show_numbers = before.show_numbers
                 /\ is_none(current_popup) /\ panic = ""
                 /\ k = "j" => current_entry # before.current_entry

C26_Witness ==
    /\ handled("j") /\ is_none(before.current_popup)
    /\ before.current_pane = "Right" /\ before.current_entry = Some("Header")
    /\ current_entry = Some("Deadline")
    /\ index = Some(0) /\ Len(tasks) = 2 /\ table_selected = Some(0)

\* C27: the sub-focus of the DescriptionPane is present exactly while the
\* right pane has the focus: Header right after 'l', absent right after 'h'.
C27_SubFocusIffRight ==
    /\ is_some(current_entry) <=> current_pane = "Right"
    /\ is_some(current_entry)
       => unwrap(current_entry) \in {"Header", "Deadline", "Description"}
    /\ (handled("l") /\ is_none(before.current_popup))
       => current_entry = Some("Header")
    /\ (handled("h") /\ is_none(before.current_popup)) => is_none(current_entry)

C27_Witness ==
    /\ handled("h") /\ is_none(before.current_popup)
    /\ before.current_pane = "Right" /\ before.current_entry = Some("Description")
    /\ is_none(current_entry) /\ current_pane = "Left"

C30_FirstLastOfView ==
    (is_some(prev) /\ key_event \in {"g", "G"} /\ is_none(before.current_popup)
     /\ before.current_pane = "Left")
    => \A now \in Clock :
         LET n == len(before.tasks, before.filter_zen, now)
         IN  /\ panic = ""
             /\ index = IF key_event = "g" THEN Some(0) ELSE Some(n - 1)

\* C31: 'p' without a popup appends one task to the collection, whichever
\* pane has the focus: the tasks that were there stay as they were and where
\* they were, the new one is a default task, and no popup is opened.
C31_AddAppendsDefault ==
    (handled("p") /\ is_none(before.current_popup))
    => /\ Len(tasks) = Len(before.tasks) + 1
       /\ SubSeq(tasks, 1, Len(before.tasks)) = before.tasks
       /\ unedited(Last(tasks))
       /\ is_some(Last(tasks).time)
       /\ is_none(current_popup)
       /\ index = before.index /\ filter_zen = before.filter_zen
       /\ current_pane = before.current_pane
       /\ file = before.file /\ ~exit /\ panic = ""

C31_Witness ==
    /\ handled("p") /\ is_none(before.current_popup)
    /\ before.current_pane = "Right"
    /\ Len(tasks) = 2 /\ before.tasks = <<tasks[1]>> /\ tasks[1].complete
    /\ unedited(tasks[2]) /\ is_none(current_popup)

\* C32: an 'e' that succeeds replaces the selected task, the row of the
\* filtered view the index addresses, by the task the Reader returns, and
\* leaves every other task, the length, the order, the index and the filter;
\* with no index, or an index that addresses no row of the view, the Reader
\* is not called: nothing changes and nothing fails in it.
C32_EditReplacesSelected ==
    (handled("e") /\ is_none(before.current_popup))
    => /\ index = before.index /\ filter_zen = before.filter_zen
       /\ Len(tasks) = Len(before.tasks)
       /\ \A now \in Clock :
            LET selected == IF is_some(before.index)
                            THEN get(before.tasks, before.filter_zen, now,
                                     unwrap(before.index))
                            ELSE None
            IN  IF is_some(selected)
                THEN LET i == unwrap(before.index)
                     IN  /\ unwrap(selected) = before.tasks[i + 1]
                         /\ \A j \in 1..Len(tasks) :
                              j # i + 1 => tasks[j] = before.tasks[j]
                         /\ panic # "" => tasks = before.tasks
                         /\ (panic = "" /\ pc = "draw") => tasks[i + 1] \in EditedTasks
                ELSE tasks = before.tasks /\ panic = ""

\* C33: the handler of 'e' leaves the alternate screen, calls the Reader,
\* and whatever the Reader returns, a failure included, is back on the
\* alternate screen, ready for the next draw (unless the terminal itself
\* fails, which ends the loop with the error).
C33_ScreenRestoredAfterReader ==
    (handled("e") /\ is_none(before.current_popup))
    => \/ pc = "failed"
       \/ screen = "alternate" /\ pc = "draw" /\ panic = ""

\* C35: the toggles, add_default, the removal of a task (at once or through
\* the popup) and the sort of a draw leave the selection index at the number
\* it has.
C35_EditsKeepIndexNumber ==
    [][(pc = "draw" \/ (pc = "event" /\ key_event' \in {"c", "s", "d", "p"}))
       => index' = index]_vars

C35_Witness ==
    /\ handled("c") /\ is_none(before.current_popup) /\ panic = ""
    /\ before.index = Some(0) /\ index = Some(0) /\ Len(tasks) = 2
    /\ tasks[1].complete /\ ~tasks[2].complete

\* the keys whose handlers edit the collection
EditKeys == {"c", "s", "d", "p", "e"}

\* a step that is no handler of an edit key, and no panic
no_edit_step ==
    panic' = "" /\ ~(pc = "event" /\ key_event' \in EditKeys)

\* the file holds the collection in memory, which is in sorted order, and
\* no popup is open
clean ==
    ~should_save(file, tasks) /\ ordered(tasks) /\ is_none(current_popup)

\* C37: a 'w' that succeeds leaves the file equal to the sorted collection
\* in memory; no draw and no key other than c, s, d, p, e ends that; and 'q'
\* pressed then sets the terminate flag and opens no popup.
C37_SavedQuitsUnasked ==
    [][/\ (pc = "event" /\ is_none(current_popup) /\ key_event' = "w" /\ panic' = "")
          => clean'
       /\ (clean /\ no_edit_step) => clean'
       /\ (clean /\ pc = "event" /\ key_event' = "q")
          => exit' /\ is_none(current_popup') /\ file' = file]_vars

C37_Witness ==
    /\ handled("q") /\ is_none(before.current_popup) /\ exit
    /\ is_none(current_popup) /\ filter_zen /\ current_pane = "Right"
    /\ Len(tasks) = 2 /\ tasks[1].starred /\ file = dump(tasks) /\ ~wrote

\* C38: from the load on, with any stored order, the file holds the
\* collection in memory until a key edits it: no draw and no key other than
\* c, s, d, p, e makes should_save true, and 'q' pressed then sets the
\* terminate flag and opens no popup.
C38_LoadAndRenderKeepSaved ==
    [][(~should_save(file, tasks) /\ is_none(current_popup) /\ no_edit_step)
       => /\ ~should_save(file', tasks')
          /\ (pc = "event" /\ key_event' = "q")
             => exit' /\ is_none(current_popup')]_vars

\* C39: the handlers of g, G, j, k, i, h, l and f leave the collection as it
\* is, task by task and in its order, and do not write the file.
C39_NavigationKeepsTasks ==
    (is_some(prev) /\ key_event \in {"g", "G", "j", "k", "i", "h", "l", "f"})
    => /\ tasks = before.tasks
       /\ file = before.file
       /\ ~wrote

C39_Witness ==
    /\ handled("f") /\ is_none(before.current_popup) /\ filter_zen
    /\ Len(tasks) = 2 /\ tasks[2].complete /\ tasks = before.tasks
    /\ before.index = Some(1) /\ index = Some(0)

----------------------------------------------------------------------------
(* The line-oriented Todo: src/uni/todo.rs                                 *)
(*                                                                         *)
(* SpecTodo runs the loop of Todo::run over the menus that change the task *)
(* list on typed entries. tasks is Todo.tasks and pc the PromptState; arg  *)
(* describes the menu that has just returned: which one, whether one of    *)
(* the entries it read was malformed, and the task list it started from.   *)
(* The sort and write menus, which read no entry, are left out.            *)

\* the variables of the App that the unit specifications do not use
ui_vars ==
    <<current_pane, table_selected, show_numbers, current_entry, current_popup,
      exit, panic, overflow_checks, key_event, wrote, prev, screen>>

\* ... and the values they are given there
ui_idle ==
    /\ current_pane = "Left" /\ table_selected = None /\ show_numbers = FALSE
    /\ current_entry = None /\ current_popup = None /\ exit = FALSE
    /\ panic = "" /\ overflow_checks = "unknown" /\ key_event = "none"
    /\ wrote = FALSE /\ prev = None /\ screen = "alternate"

\* a typed line, trimmed: nothing, or a text
Lines == {"", "x"}

\* a line typed where a number is asked: nothing, a text that is no number,
\* or a number
NoEntry == [kind |-> "empty", value |-> 0]
TextEntry == [kind |-> "text", value |-> 0]
NumberEntry(n) == [kind |-> "number", value |-> n]

\* a line typed where true or false is asked
BoolEntries == {"", "true", "false", "maybe"}

\* the answers to a (Y/n) question
YesNo == {"y", "n"}

\* the calendar reading of Local::now() in ask_date
NowDate == [year |-> 0, month |-> 1, day |-> 1, hour |-> 0, minute |-> 0]

unwrap_or(o, default) == IF is_some(o) THEN unwrap(o) ELSE default

ask_number_date(entry) ==
    IF entry.kind = "number" THEN Some(entry.value)
    ELSE IF entry.kind = "empty" THEN None
    ELSE Some(-1)

\* Local.with_ymd_and_hms: a negative field cast to u32 is out of range. The
\* instant keeps the order of the dates; a month counts 31 days.
with_ymd_and_hms(year, month, day, hour, min) ==
    IF month \in 1..12 /\ day \in 1..31 /\ hour \in 0..23 /\ min \in 0..59
    THEN Some([utc |-> ((year * 12 + (month - 1)) * 31 + (day - 1)) * 2
                       + (hour \div 12),
               off |-> 0])
    ELSE None

\* ask_date: [ok, date] for Ok(date) and [ok |-> FALSE] for Err(())
ask_date(year_e, month_e, day_e, hour_e, min_e) ==
    LET year == unwrap_or(ask_number_date(year_e), NowDate.year)
        month == unwrap_or(ask_number_date(month_e), NowDate.month)
        day == unwrap_or(ask_number_date(day_e), NowDate.day)
        hour == unwrap_or(ask_number_date(hour_e), NowDate.hour)
        min == unwrap_or(ask_number_date(min_e), NowDate.minute)
        local == with_ymd_and_hms(year, month, day, hour, min)
    IN  IF month < 1 \/ month > 12 THEN [ok |-> FALSE, date |-> None]
        ELSE IF day < 1 \/ day > 31 THEN [ok |-> FALSE, date |-> None]
        ELSE IF hour > 23 THEN [ok |-> FALSE, date |-> None]
        ELSE IF is_some(local) THEN [ok |-> TRUE, date |-> local]
        ELSE [ok |-> FALSE, date |-> None]

\* str::parse::<bool> of the trimmed, lowercased line, with Err as false
parse_bool_or_false(line) == line = "true"

\* ask_index: the entry is a one-based position in the list
ask_index(ts, entry) ==
    IF entry.kind # "number" THEN None
    ELSE IF entry.value - 1 < 0 \/ entry.value - 1 >= Len(ts) THEN None
    ELSE Some(entry.value - 1)

\* the entries typed at the prompts of ask_date
YearEntries == {NoEntry, TextEntry, NumberEntry(1)}
MonthEntries == {NoEntry, TextEntry, NumberEntry(13)}
DayEntries == {NoEntry, TextEntry, NumberEntry(32)}
HourEntries == {NoEntry, TextEntry, NumberEntry(24)}
MinuteEntries == {NoEntry, TextEntry, NumberEntry(60)}
IndexEntries == {TextEntry, NumberEntry(0), NumberEntry(1), NumberEntry(2)}

\* the five entries typed when ask_date is called; none when it is not
DateEntries(asked) ==
    IF asked
    THEN YearEntries \X MonthEntries \X DayEntries \X HourEntries \X MinuteEntries
    ELSE {<<NoEntry, NoEntry, NoEntry, NoEntry, NoEntry>>}

\* the tasks the file of the Todo holds at startup
TodoTasks ==
    [name : {"x"}, description : {"x"}, subject : {"x"}, time : {None},
     complete : BOOLEAN, starred : {FALSE}]

\* an entry that is no number, or a number outside the range of its field
malformed_number(entry, low, high) ==
    \/ entry.kind = "text"
    \/ entry.kind = "number" /\ entry.value \notin low..high

\* one of the entries of a date is malformed (the year has no range)
malformed_date(year_e, month_e, day_e, hour_e, min_e) ==
    \/ year_e.kind = "text"
    \/ malformed_number(month_e, 1, 12)
    \/ malformed_number(day_e, 1, 31)
    \/ malformed_number(hour_e, 0, 23)
    \/ malformed_number(min_e, 0, 59)

malformed_bool(line) == line \notin {"", "true", "false"}

\* a menu returns to Todo::run, which goes on with PromptState::Start
Finished(menu, malformed) ==
    /\ arg' = Some([menu |-> menu, malformed |-> malformed, before |-> tasks])
    /\ pc' = "Start"
    /\ UNCHANGED <<index, filter_zen, file, ret, calls, ui_vars>>

InitTodo ==
    /\ tasks \in SeqsUpTo(TodoTasks, MaxInit)
    /\ pc = "Start"
    /\ index = None /\ filter_zen = FALSE /\ file = dump(<<>>)
    /\ arg = None /\ ret = None /\ calls = <<>>
    /\ ui_idle

\* Todo::start_menu: the options that lead to a menu, to the end of the loop,
\* or back to the start menu (list, calendar, an unknown option)
Todo_start_menu ==
    /\ pc = "Start"
    /\ \E answer \in {"check", "add", "modify", "delete", "quit", "list"} :
         pc' = CASE answer = "check" -> "Check"
                 [] answer = "add" /\ Len(tasks) < MaxTasks -> "Add"
                 [] answer = "modify" -> "Modify"
                 [] answer = "delete" -> "Delete"
                 [] answer = "quit" -> "Quit"
                 [] OTHER -> "Start"
    /\ arg' = None
    /\ UNCHANGED <<tasks, index, filter_zen, file, ret, calls, ui_vars>>

Todo_add_menu ==
    /\ pc = "Add"
    /\ \E name \in Lines :
         IF name = "" THEN UNCHANGED tasks /\ Finished("add", FALSE)
         ELSE \E description \in Lines :
           IF description = "" THEN UNCHANGED tasks /\ Finished("add", FALSE)
           ELSE \E subject \in Lines :
             IF subject = "" THEN UNCHANGED tasks /\ Finished("add", FALSE)
             ELSE \E date_request \in YesNo : \E d \in DateEntries(date_request = "y"),
                     complete \in BoolEntries, answer \in YesNo :
               LET asked == ask_date(d[1], d[2], d[3], d[4], d[5])
                   bad_date == date_request = "y"
                               /\ malformed_date(d[1], d[2], d[3], d[4], d[5])
                   task == [name |-> name, description |-> description,
                            subject |-> subject,
                            time |-> IF date_request = "y" THEN asked.date ELSE None,
                            complete |-> parse_bool_or_false(complete),
                            starred |-> FALSE]
               IN  IF date_request = "y" /\ ~asked.ok
                   THEN UNCHANGED tasks /\ Finished("add", bad_date)
                   ELSE /\ tasks' = IF answer = "y" THEN Append(tasks, task) ELSE tasks
                        /\ Finished("add", bad_date \/ malformed_bool(complete))

Todo_modify_menu ==
    /\ pc = "Modify"
    /\ \E index_e \in IndexEntries :
         LET i == ask_index(tasks, index_e)
         IN  IF is_none(i) THEN UNCHANGED tasks /\ Finished("modify", TRUE)
             ELSE \E name \in Lines, copy_date \in YesNo :
                  \E d \in DateEntries(copy_date = "n"),
                     complete \in BoolEntries, answer \in YesNo :
               LET old == tasks[unwrap(i) + 1]
                   asked == ask_date(d[1], d[2], d[3], d[4], d[5])
                   bad_date == copy_date = "n"
                               /\ malformed_date(d[1], d[2], d[3], d[4], d[5])
                   prototype ==
                       [old EXCEPT
                          !.name = IF name # "" THEN name ELSE @,
                          !.time = IF copy_date = "y" THEN @ ELSE asked.date,
                          !.complete = IF complete # ""
                                       THEN parse_bool_or_false(complete) ELSE @]
               IN  IF copy_date = "n" /\ ~asked.ok
                   THEN UNCHANGED tasks /\ Finished("modify", bad_date)
                   ELSE /\ tasks' = IF answer = "y"
                                    THEN [tasks EXCEPT ![unwrap(i) + 1] = prototype]
                                    ELSE tasks
                        /\ Finished("modify", bad_date \/ malformed_bool(complete))

Todo_delete_menu ==
    /\ pc = "Delete"
    /\ \E index_e \in IndexEntries :
         LET i == ask_index(tasks, index_e)
         IN  /\ tasks' = IF is_some(i)
                         THEN SubSeq(tasks, 1, unwrap(i))
                              \o SubSeq(tasks, unwrap(i) + 2, Len(tasks))
                         ELSE tasks
             /\ Finished("delete", is_none(i))

Todo_check_menu ==
    /\ pc = "Check"
    /\ \E index_e \in IndexEntries :
         LET i == ask_index(tasks, index_e)
         IN  /\ tasks' = IF is_some(i)
                         THEN [tasks EXCEPT ![unwrap(i) + 1].complete = ~@]
                         ELSE tasks
             /\ Finished("check", is_none(i))

NextTodo ==
    \/ Todo_start_menu
    \/ Todo_add_menu
    \/ Todo_modify_menu
    \/ Todo_delete_menu
    \/ Todo_check_menu

SpecTodo == InitTodo /\ [][NextTodo]_vars

\* C14: in the add and modify menus a malformed numeric, date or boolean
\* entry aborts the operation: the loop is back at Start with the task list
\* the menu started from.
C14_MalformedEntryAborts ==
    (is_some(arg) /\ unwrap(arg).menu \in {"add", "modify"} /\ unwrap(arg).malformed)
    => pc = "Start" /\ tasks = unwrap(arg).before

----------------------------------------------------------------------------
(* Data on its own: Data::sort and Data::toggle_filter_zen                 *)
(*                                                                         *)
(* SpecData starts from any Data (a collection, an index that may be stale *)
(* and a filter flag) and calls sort and toggle_filter_zen on it. arg is   *)
(* the Data it started from and calls the calls made.                      *)

\* deadlines: none, one instant in two offsets, and a later instant
DataTimes ==
    {None, Some([utc |-> 0, off |-> 0]), Some([utc |-> 0, off |-> 1]),
     Some([utc |-> 1, off |-> 0])}

DataTasks ==
    [name : {DefaultName}, description : {DefaultDescription},
     subject : {DefaultSubject}, time : DataTimes, complete : BOOLEAN,
     starred : {FALSE}]

InitData ==
    /\ tasks \in SeqsUpTo(DataTasks, MaxData)
    /\ index \in {None} \cup {Some(i) : i \in 0..Len(tasks)}
    /\ filter_zen \in BOOLEAN
    /\ arg = Some([tasks |-> tasks, index |-> index, filter_zen |-> filter_zen])
    /\ ret = None
    /\ calls = <<>>
    /\ file = dump(<<>>)
    /\ pc = "event"
    /\ ui_idle

Data_sort ==
    /\ Len(calls) < MaxCalls
    /\ tasks' = sort(tasks)
    /\ calls' = Append(calls, "sort")
    /\ UNCHANGED <<index, filter_zen, arg, ret, file, pc, ui_vars>>

\* mutant of Data_toggle_filter_zen: the filter is switched on, never off
Data_toggle_filter_zen_on ==
    /\ Len(calls) < MaxCalls
    /\ filter_zen' = TRUE
    /\ \E now \in Clock : index' = toggle_filter_zen(tasks, index, filter_zen, now)
    /\ calls' = Append(calls, "toggle_filter_zen")
    /\ UNCHANGED <<tasks, arg, ret, file, pc, ui_vars>>

Data_toggle_filter_zen ==
    /\ Len(calls) < MaxCalls
    /\ filter_zen' = ~filter_zen
    /\ \E now \in Clock : index' = toggle_filter_zen(tasks, index, filter_zen, now)
    /\ calls' = Append(calls, "toggle_filter_zen")
    /\ UNCHANGED <<tasks, arg, ret, file, pc, ui_vars>>

NextData ==
    \/ Data_sort
    \/ Data_toggle_filter_zen

SpecData == InitData /\ [][NextData]_vars

\* what the order of Data::sort looks at: completion, then the presence of a
\* deadline, then its instant
sort_key(task) ==
    <<task.complete, is_none(task.time),
      IF is_some(task.time) THEN unwrap(task.time).utc ELSE 0>>

\* C15: after Data::sort the incomplete tasks precede the complete ones, in
\* each completion group the tasks with a deadline precede those without and
\* the deadlines do not decrease, and the result holds the tasks of the input,
\* those that compare equal in the order they had.
C15_SortOrdersAndKeeps ==
    (calls # <<>> /\ Last(calls) = "sort")
    => LET input == unwrap(arg).tasks
       IN  /\ Len(tasks) = Len(input)
           /\ \A i, j \in 1..Len(tasks) :
                i < j
                => /\ tasks[i].complete => tasks[j].complete
                   /\ tasks[i].complete = tasks[j].complete
                      => /\ is_none(tasks[i].time) => is_none(tasks[j].time)
                         /\ (is_some(tasks[i].time) /\ is_some(tasks[j].time))
                            => unwrap(tasks[i].time).utc <= unwrap(tasks[j].time).utc
           /\ \A t \in DataTasks :
                SelectSeq(tasks, LAMBDA x : sort_key(x) = sort_key(t))
                = SelectSeq(input, LAMBDA x : sort_key(x) = sort_key(t))

C15_Witness ==
    /\ calls = <<"sort">> /\ Len(tasks) = 3 /\ tasks # unwrap(arg).tasks
    /\ ~tasks[1].complete /\ ~tasks[2].complete /\ tasks[3].complete
    /\ sort_key(tasks[1]) = sort_key(tasks[2]) /\ tasks[1] # tasks[2]
    /\ unwrap(arg).tasks[1] = tasks[3]

\* C18: two calls of toggle_filter_zen in a row give back the filter flag
\* and the filtered view, in content and in length.
C18_ToggleTwiceRestoresView ==
    calls = <<"toggle_filter_zen", "toggle_filter_zen">>
    => /\ filter_zen = unwrap(arg).filter_zen
       /\ \A now1, now2 \in Clock :
            /\ iter(tasks, filter_zen, now1)
               = iter(unwrap(arg).tasks, unwrap(arg).filter_zen, now2)
            /\ len(tasks, filter_zen, now1)
               = len(unwrap(arg).tasks, unwrap(arg).filter_zen, now2)

C18_Witness ==
    /\ calls = <<"toggle_filter_zen", "toggle_filter_zen">>
    /\ filter_zen /\ Len(tasks) = 2
    /\ \A now \in Clock : len(tasks, filter_zen, now) = 1
    /\ index # unwrap(arg).index

\* C24: toggle_filter_zen flips the filter flag, leaves the collection, and
\* with n the length of the new filtered view sets the index to absent when
\* n = 0, to min(old index, n - 1) when n > 0 and an index was present, and
\* to 0 when n > 0 and the index was absent.
C24_ToggleClampsIndex ==
    calls = <<"toggle_filter_zen">>
    => LET old == unwrap(arg)
       IN  /\ filter_zen = ~old.filter_zen
           /\ tasks = old.tasks
           /\ \A now \in Clock :
                LET n == len(tasks, filter_zen, now)
                IN  index = IF n = 0 THEN None
                            ELSE IF is_some(old.index)
                            THEN Some(Min(unwrap(old.index), n - 1))
                            ELSE Some(0)

C24_Witness ==
    /\ calls = <<"toggle_filter_zen">> /\ filter_zen /\ Len(tasks) = 3
    /\ unwrap(arg).index = Some(2) /\ index = Some(0)
    /\ \A now \in Clock : len(tasks, filter_zen, now) = 1

\* C36: right after Data::sort the view under the Zen filter is a prefix of
\* the collection: row i of the view is tasks[i], the rows are the
\* incomplete tasks and the hidden tasks the complete ones behind them; with
\* the filter off the view is the collection, in its order.
C36_SortedViewIsPrefix ==
    (calls # <<>> /\ Last(calls) = "sort")
    => \A now \in Clock :
         LET view == iter(tasks, filter_zen, now)
             n == Len(view)
         IN  IF filter_zen
             THEN /\ view = SubSeq(tasks, 1, n)
                  /\ \A i \in 0..n - 1 :
                       get(tasks, filter_zen, now, i) = Some(tasks[i + 1])
                  /\ \A j \in 1..Len(tasks) : j <= n <=> ~tasks[j].complete
             ELSE view = tasks

C36_Witness ==
    /\ calls = <<"sort">> /\ filter_zen /\ Len(tasks) = 3
    /\ tasks # unwrap(arg).tasks /\ unwrap(arg).tasks[1].complete
    /\ \A now \in Clock : len(tasks, filter_zen, now) = 2

----------------------------------------------------------------------------
(* Task::get_status on its own                                             *)
(*                                                                         *)
(* SpecTask takes any task (arg) and asks for its status, either with any  *)
(* duration (get_status) or with the time left until the deadline          *)
(* (get_status_now). ret is the clock reading, the duration and the status.*)

StatusTimes ==
    {None} \cup {Some([utc |-> t, off |-> o]) :
                   t \in -MaxDeadline..MaxDeadline, o \in {0, 1}}

StatusTasks ==
    [name : {DefaultName}, description : {DefaultDescription},
     subject : {DefaultSubject}, time : StatusTimes, complete : BOOLEAN,
     starred : {FALSE}]

Durations == {None} \cup {Some(d) : d \in -MaxDeadline..MaxDeadline}

InitTask ==
    /\ arg \in {Some(t) : t \in StatusTasks}
    /\ ret = None
    /\ calls = <<>>
    /\ tasks = <<>> /\ index = None /\ filter_zen = FALSE
    /\ file = dump(<<>>)
    /\ pc = "event"
    /\ ui_idle

Task_get_status ==
    /\ calls = <<>>
    /\ \E duration \in Durations :
         ret' = Some([now |-> None, duration |-> duration,
                      status |-> get_status(unwrap(arg), duration)])
    /\ calls' = <<"get_status">>
    /\ UNCHANGED <<arg, tasks, index, filter_zen, file, pc, ui_vars>>

Task_get_status_now ==
    /\ calls = <<>>
    /\ \E now \in Clock :
         ret' = Some([now |-> Some(now), duration |-> get_delta_now(unwrap(arg), now),
                      status |-> get_status_now(unwrap(arg), now)])
    /\ calls' = <<"get_status_now">>
    /\ UNCHANGED <<arg, tasks, index, filter_zen, file, pc, ui_vars>>

NextTask ==
    \/ Task_get_status
    \/ Task_get_status_now

SpecTask == InitTask /\ [][NextTask]_vars

\* C16: the status of a complete task is Zen, whatever the deadline and the
\* duration; the status of an incomplete task is never Zen.
C16_ZenIffComplete ==
    is_some(ret) => (unwrap(ret).status = "Zen" <=> unwrap(arg).complete)

C16_Witness ==
    /\ is_some(ret) /\ unwrap(arg).complete /\ unwrap(ret).status = "Zen"
    /\ unwrap(ret).duration = Some(-1) /\ calls = <<"get_status_now">>

\* C17: the status of an incomplete task is Panic when the deadline is
\* present and less than 2 days away (overdue included), and Normal
\* otherwise. A day is 2 units of time.
C17_PanicIffNear ==
    (is_some(ret) /\ ~unwrap(arg).complete)
    => LET task == unwrap(arg)
           r == unwrap(ret)
       IN  /\ is_some(r.now)
              => r.duration = IF is_some(task.time)
                              THEN Some(unwrap(task.time).utc - unwrap(r.now))
                              ELSE None
           /\ r.status = IF is_some(r.duration) /\ unwrap(r.duration) < 2 * 2
                         THEN "Panic" ELSE "Normal"

C17_Witness ==
    /\ is_some(ret) /\ ~unwrap(arg).complete /\ calls = <<"get_status_now">>
    /\ unwrap(ret).duration = Some(3) /\ unwrap(ret).status = "Panic"

----------------------------------------------------------------------------
(* TomlStorage on its own: write, read and should_save                     *)
(*                                                                         *)
(* SpecStorage holds a collection in memory (tasks) and a storage file. It *)
(* writes the collection, may change it in memory by one edit, and reads   *)
(* the file or asks should_save. arg is the collection last written, calls *)
(* the storage calls made and ret what the last of them returned.          *)

StorageTimes ==
    {None, Some([utc |-> 0, off |-> 0]), Some([utc |-> 0, off |-> 1]),
     Some([utc |-> 1, off |-> 1])}

StorageTasks ==
    [name : {DefaultName}, description : {DefaultDescription},
     subject : {DefaultSubject}, time : StorageTimes, complete : BOOLEAN,
     starred : BOOLEAN]

\* the collections one change away: a field of one task, a task removed,
\* a task added at the end, two neighbours swapped
Edits(ts) ==
    LET n == 1..Len(ts)
    IN  ({[ts EXCEPT ![i].name = "renamed"] : i \in n}
         \cup {[ts EXCEPT ![i].description = "rewritten"] : i \in n}
         \cup {[ts EXCEPT ![i].subject = "moved"] : i \in n}
         \cup {[ts EXCEPT ![i].time = t] : i \in n, t \in StorageTimes}
         \cup {[ts EXCEPT ![i].complete = ~@] : i \in n}
         \cup {[ts EXCEPT ![i].starred = ~@] : i \in n}
         \cup {SubSeq(ts, 1, i - 1) \o SubSeq(ts, i + 1, Len(ts)) : i \in n}
         \cup {Append(ts, t) : t \in StorageTasks}
         \cup {[ts EXCEPT ![i] = ts[i + 1], ![i + 1] = ts[i]] : i \in 1..Len(ts) - 1})
        \ {ts}

\* the variables of the App that SpecStorage does not use
storage_unused ==
    <<index, filter_zen, pc, current_pane, table_selected, show_numbers,
      current_entry, current_popup, exit, overflow_checks, key_event, wrote, prev,
      screen>>

InitStorage ==
    /\ tasks \in SeqsUpTo(StorageTasks, MaxStored)
    /\ file = dump(<<>>)
    /\ arg = None
    /\ ret = None
    /\ calls = <<>>
    /\ index = None /\ filter_zen = FALSE
    /\ pc = "event"
    /\ ui_idle

\* TomlStorage::write
Storage_write ==
    /\ panic = "" /\ calls = <<>>
    /\ \E o \in write_outcomes(file, tasks) :
         /\ file' = o.file
         /\ calls' = Append(calls, IF o.ok THEN "write" ELSE "write failed")
         /\ arg' = IF o.ok THEN Some(tasks) ELSE arg
         /\ ret' = Some(o.ok)
    /\ UNCHANGED <<tasks, panic, storage_unused>>

\* the collection is changed in memory, once
Storage_change ==
    /\ panic = "" /\ calls = <<"write">> /\ tasks = unwrap(arg)
    /\ tasks' \in Edits(tasks)
    /\ UNCHANGED <<file, arg, ret, calls, panic, storage_unused>>

\* TomlStorage::read; a file that does not parse is a panic
Storage_read ==
    /\ panic = "" /\ Len(calls) < MaxCalls
    /\ calls' = Append(calls, "read")
    /\ IF file.whole
       THEN ret' = Some(read(file)) /\ UNCHANGED panic
       ELSE panic' = "read: could not parse the file" /\ UNCHANGED ret
    /\ UNCHANGED <<tasks, file, arg, storage_unused>>

\* TomlStorage::should_save
Storage_should_save ==
    /\ panic = "" /\ Len(calls) < MaxCalls
    /\ calls' = Append(calls, "should_save")
    /\ ret' = Some(should_save(file, tasks))
    /\ UNCHANGED <<tasks, file, arg, panic, storage_unused>>

NextStorage ==
    \/ Storage_write
    \/ Storage_change
    \/ Storage_read
    \/ Storage_should_save

SpecStorage == InitStorage /\ [][NextStorage]_vars

\* C19: read after write returns the collection written, task by task and in
\* the same order: the six fields are equal, and a task without a deadline is
\* read back without one.
C19_WriteReadRoundTrip ==
    calls = <<"write", "read">>
    => LET written == unwrap(arg)
           back == unwrap(ret)
       IN  /\ panic = ""
           /\ Len(back) = Len(written)
           /\ \A i \in 1..Len(written) :
                /\ task_eq(back[i], written[i])
                /\ back[i].name = written[i].name
                /\ back[i].description = written[i].description
                /\ back[i].subject = written[i].subject
                /\ back[i].complete = written[i].complete
                /\ back[i].starred = written[i].starred
                /\ is_none(written[i].time) <=> is_none(back[i].time)
                /\ is_some(written[i].time)
                   => unwrap(back[i].time).utc = unwrap(written[i].time).utc

C19_Witness ==
    /\ calls = <<"write", "read">> /\ Len(unwrap(arg)) = 2
    /\ is_none(unwrap(arg)[1].time)
    /\ unwrap(arg)[2].time = Some([utc |-> 1, off |-> 1])
    /\ unwrap(ret) = unwrap(arg)

\* C20: should_save is true exactly when the serialization of the tasks in
\* memory differs from the file: false right after a write of the same
\* tasks, true after a change of a field, of the number of tasks or of their
\* order.
C20_ShouldSaveIffDiffers ==
    (calls # <<>> /\ Last(calls) = "should_save")
    => /\ unwrap(ret) = (file # dump(tasks))
       /\ calls[1] = "write" => unwrap(ret) = (tasks # unwrap(arg))

C20_Witness ==
    /\ calls = <<"write", "should_save">> /\ unwrap(ret) = TRUE
    /\ Len(tasks) = 2 /\ Len(unwrap(arg)) = 2
    /\ tasks[1] = unwrap(arg)[2] /\ tasks[2] = unwrap(arg)[1]

----------------------------------------------------------------------------
(* DescriptionPane on its own: the keys of the focused pane                *)
(*                                                                         *)
(* SpecDescription gives the DescriptionPane, focused on any of its        *)
(* entries, up to MaxKeys keys. arg is the pane and the Data it started    *)
(* from and calls the keys given.                                          *)

DescriptionEntries == {"Header", "Deadline", "Description"}

InitDescription ==
    /\ current_entry \in {Some(e) : e \in DescriptionEntries}
    /\ current_pane = "Right"
    /\ tasks \in SeqsUpTo(StoredTasks, 1)
    /\ index = Data_new(tasks)
    /\ arg = Some([current_entry |-> current_entry, tasks |-> tasks,
                    index |-> index])
    /\ ret = None
    /\ calls = <<>>
    /\ filter_zen = FALSE /\ table_selected = Some(0) /\ show_numbers = FALSE
    /\ current_popup = None /\ file = dump(tasks) /\ exit = FALSE
    /\ pc = "event" /\ panic = "" /\ overflow_checks = "unknown"
    /\ key_event = "none" /\ wrote = FALSE /\ prev = None /\ screen = "alternate"

\* DescriptionPane::handle_key_event on 'j', 'k' or another key
Description_handle_key_event ==
    /\ Len(calls) < MaxKeys
    /\ \E k \in {"j", "k", "x"} :
         /\ DescriptionPane_handle_key_event(k)
         /\ calls' = Append(calls, k)
    /\ UNCHANGED <<filter_zen, current_pane, file, exit, key_event, wrote, prev,
                   screen, arg, ret>>

NextDescription == Description_handle_key_event

SpecDescription == InitDescription /\ [][NextDescription]_vars

\* the place of an entry in the cycle Header, Deadline, Description
entry_position(e) ==
    CASE e = "Header" -> 0 [] e = "Deadline" -> 1 [] e = "Description" -> 2

\* how often the key k is among the keys given
times_given(k) == Len(SelectSeq(calls, LAMBDA x : x = k))

\* C28: in the focused DescriptionPane 'j' moves the sub-focus one entry on
\* in the cycle Header, Deadline, Description and 'k' one entry back: 'j'
\* then 'k' and 'k' then 'j' change nothing, three 'j' or three 'k' lead
\* back to the entry they started from, and no key changes the collection
\* or the selection index.
C28_SubFocusCycles ==
    LET start == unwrap(arg).current_entry
    IN  /\ is_some(current_entry)
        /\ entry_position(unwrap(current_entry))
           = (entry_position(unwrap(start)) + times_given("j") - times_given("k")) % 3
        /\ calls = <<"j">>
           => current_entry = CASE start = Some("Header") -> Some("Deadline")
                                [] start = Some("Deadline") -> Some("Description")
                                [] start = Some("Description") -> Some("Header")
        /\ calls \in {<<"j", "k">>, <<"k", "j">>, <<"j", "j", "j">>, <<"k", "k", "k">>}
           => current_entry = start
        /\ tasks = unwrap(arg).tasks
        /\ index = unwrap(arg).index

C28_Witness ==
    /\ calls = <<"k", "k", "k">> /\ unwrap(arg).current_entry = Some("Deadline")
    /\ current_entry = Some("Deadline") /\ Len(tasks) = 1 /\ index = Some(0)

----------------------------------------------------------------------------
(* Task::is_default on its own                                             *)
(*                                                                         *)
(* SpecDefault holds one task, selected, in a Data: any task made of the   *)
(* default texts or others, with any deadline and flags. It toggles the    *)
(* two flags as 'c' and 's' do and asks is_default. arg is the task it     *)
(* started from, calls the toggles made and ret the answer of is_default   *)
(* for the task as it is.                                                  *)

DefaultTimes == {None, Some([utc |-> 0, off |-> 0]), Some([utc |-> 1, off |-> 1])}

DefaultCandidates ==
    [name : {DefaultName, "x"}, description : {DefaultDescription, "x"},
     subject : {DefaultSubject, "x"}, time : DefaultTimes, complete : BOOLEAN,
     starred : BOOLEAN]

InitDefault ==
    /\ tasks \in {<<t>> : t \in DefaultCandidates}
    /\ index = Some(0)
    /\ filter_zen = FALSE
    /\ arg = Some(tasks[1])
    /\ ret = None
    /\ calls = <<>>
    /\ file = dump(<<>>)
    /\ pc = "event"
    /\ ui_idle

Task_is_default ==
    /\ is_none(ret)
    /\ \E now \in Clock : ret' = Some(is_default(tasks[1], now))
    /\ UNCHANGED <<tasks, index, filter_zen, arg, calls, file, pc, ui_vars>>

\* Data::toggle_task_status and Data::toggle_task_star on the selected task
Task_toggle ==
    /\ Len(calls) < MaxToggles
    /\ \E k \in {"c", "s"} :
         /\ tasks' = IF k = "c" THEN toggle_task_status(tasks, unwrap(index))
                     ELSE toggle_task_star(tasks, unwrap(index))
         /\ calls' = Append(calls, k)
    /\ ret' = None
    /\ UNCHANGED <<index, filter_zen, arg, file, pc, ui_vars>>

NextDefault ==
    \/ Task_is_default
    \/ Task_toggle

SpecDefault == InitDefault /\ [][NextDefault]_vars

\* C34: is_default is true exactly of the tasks with the three default
\* texts and both flags unset, whatever the deadline; so one toggle of a
\* flag of a default task makes it non-default, and the second toggle of
\* the same flag gives back the task and the answer.
C34_DefaultIffUnedited ==
    is_some(ret)
    => /\ unwrap(ret) = unedited(tasks[1])
       /\ (Len(calls) = 1 /\ unedited(unwrap(arg))) => unwrap(ret) = FALSE
       /\ calls \in {<<"c", "c">>, <<"s", "s">>}
          => tasks[1] = unwrap(arg) /\ unwrap(ret) = unedited(unwrap(arg))

C34_Witness ==
    /\ calls = <<"s", "s">> /\ ret = Some(TRUE)
    /\ tasks[1].time = Some([utc |-> 1, off |-> 1])

----------------------------------------------------------------------------
(* EditorTaskReader on its own: src/readers.rs                             *)
(*                                                                         *)
(* SpecReader writes a task (arg) into the editor buffer and parses the    *)
(* buffer, left as it is or with the time line made unreadable. A deadline *)
(* carries its seconds here, which the text of the buffer does not show.   *)
(* The buffer is [metadata, description]: the YAML front matter, field by  *)
(* field, and the text below it, which matter() gives back as it is.       *)

ReaderTimes ==
    {None, Some([utc |-> 0, off |-> 0, second |-> 0]),
     Some([utc |-> 1, off |-> 1, second |-> 0]),
     Some([utc |-> 0, off |-> 0, second |-> 30])}

ReaderTasks ==
    [name : {DefaultName, "x"}, description : {DefaultDescription, "x"},
     subject : {DefaultSubject}, time : ReaderTimes, complete : BOOLEAN,
     starred : BOOLEAN]

\* DATE_FORMAT shows the local date, hour and minute and the offset
TaskMetadata_format_time(time) ==
    [parses |-> TRUE, local |-> time.utc + time.off, off |-> time.off]

\* TaskMetadata::parse_time: a text that does not parse is read as now, no
\* text is an error
TaskMetadata_parse_time(time, now) ==
    IF is_some(time)
    THEN [ok |-> TRUE,
          value |-> IF unwrap(time).parses
                    THEN [utc |-> unwrap(time).local - unwrap(time).off,
                          off |-> unwrap(time).off, second |-> 0]
                    ELSE Local_now(now)]
    ELSE [ok |-> FALSE, value |-> Local_now(now)]

TaskMetadata_from_task(task, now) ==
    [name |-> task.name, subject |-> task.subject,
     time |-> Some(TaskMetadata_format_time(unwrap_or(task.time, Local_now(now)))),
     complete |-> task.complete, starred |-> task.starred]

EditorTaskReader_to_task(task_proxy, description, now) ==
    LET parsed == TaskMetadata_parse_time(task_proxy.time, now)
    IN  [name |-> task_proxy.name, subject |-> task_proxy.subject,
         time |-> IF parsed.ok THEN Some(parsed.value) ELSE None,
         description |-> description,
         complete |-> task_proxy.complete, starred |-> task_proxy.starred]

task_to_string(task, now) ==
    [metadata |-> TaskMetadata_from_task(task, now), description |-> task.description]

from_str_task(text, now) ==
    Some(EditorTaskReader_to_task(text.metadata, text.description, now))

InitReader ==
    /\ arg \in {Some(t) : t \in ReaderTasks}
    /\ ret = None
    /\ calls = <<>>
    /\ tasks = <<>> /\ index = None /\ filter_zen = FALSE
    /\ file = dump(<<>>)
    /\ pc = "event"
    /\ ui_idle

\* the user leaves the buffer as it is
Reader_buffer_untouched ==
    /\ calls = <<>>
    /\ \E written \in Clock, parsed \in Clock :
         ret' = from_str_task(task_to_string(unwrap(arg), written), parsed)
    /\ calls' = <<"task_to_string", "from_str_task">>
    /\ UNCHANGED <<arg, tasks, index, filter_zen, file, pc, ui_vars>>

\* the user makes the time line unreadable
Reader_time_garbled ==
    /\ calls = <<>>
    /\ \E written \in Clock, parsed \in Clock :
         LET text == task_to_string(unwrap(arg), written)
             time == [unwrap(text.metadata.time) EXCEPT !.parses = FALSE]
         IN  ret' = from_str_task([text EXCEPT !.metadata.time = Some(time)], parsed)
    /\ calls' = <<"task_to_string", "edit", "from_str_task">>
    /\ UNCHANGED <<arg, tasks, index, filter_zen, file, pc, ui_vars>>

NextReader ==
    \/ Reader_buffer_untouched
    \/ Reader_time_garbled

SpecReader == InitReader /\ [][NextReader]_vars

\* two deadlines are the same instant, or both are absent
same_instant(a, b) ==
    \/ is_none(a) /\ is_none(b)
    \/ /\ is_some(a) /\ is_some(b)
       /\ unwrap(a).utc = unwrap(b).utc
       /\ unwrap(a).second = unwrap(b).second

\* C40: the text written for the editor, parsed as it is, gives a task
\* equal to the one written: the same texts and flags and the same
\* deadline, and no deadline for a task that has none.
C40_EditorRoundTrip ==
    calls = <<"task_to_string", "from_str_task">>
    => /\ is_some(ret)
       /\ LET t == unwrap(arg)
              back == unwrap(ret)
          IN  /\ back.name = t.name
              /\ back.description = t.description
              /\ back.subject = t.subject
              /\ back.complete = t.complete
              /\ back.starred = t.starred
              /\ is_none(t.time) <=> is_none(back.time)
              /\ same_instant(back.time, t.time)

====
